---------------------------- MODULE Spec2Model ----------------------------
(***************************************************************************)
(* Board support package of the Connected Development SX1262 shield        *)
(* (src/RALBSP/ral_sx126x_bsp.c): the PA configuration table, the lookup   *)
(* CDShieldSx1262PaPwrCfg, the Tx configuration callback, the constant     *)
(* getters and the provider of the static ralf_t instance.                 *)
(*                                                                         *)
(* A uint32_t is written as the pair <<hi, lo>> of its 16-bit halves, so   *)
(* that values up to 2^32 - 1 and the wrap-around of the conversion from   *)
(* int are represented exactly.  A pointer into paCfgTable is the uint32_t *)
(* element index it points at; the null pointer is the empty tuple.        *)
(***************************************************************************)
EXTENDS Integers, Sequences, FiniteSets

VARIABLES
    paCfgTable,             \* the 32-entry table in static storage
    lastCall,               \* the call that ran last: [op, context, freq, pwr]
    paPwrCfg,               \* pointer returned by the last CDShieldSx1262PaPwrCfg
    outputParams,           \* caller's ral_sx126x_bsp_tx_cfg_output_params_t
    seen,                   \* one earlier call kept with its result (history)
    regMode,                \* caller's out-parameter of get_reg_mode
    dio2IsSetAsRfSwitch,    \* caller's out-parameter of get_rf_switch_cfg
    DIO2_TX_ENABLE,         \* devicetree property dio2_tx_enable of the board
    ocpInStepOf2p5Mma,      \* caller's out-parameter of get_ocp_value
    tcxoIsRadioControlled,  \* caller's out-parameters of get_xosc_cfg
    supplyVoltage,
    startupTimeInTick,
    localRalf,              \* static ralf_t localRalf of the provider
    handles,                \* pointers the provider has returned, in order
    ralfBefore              \* contents of localRalf just before the last provider call

paVars     == <<paCfgTable, paPwrCfg, outputParams>>
getterVars == <<regMode, dio2IsSetAsRfSwitch, DIO2_TX_ENABLE, ocpInStepOf2p5Mma,
                tcxoIsRadioControlled, supplyVoltage, startupTimeInTick>>
ralfVars   == <<localRalf, handles, ralfBefore>>
vars       == <<paVars, lastCall, seen, getterVars, ralfVars>>

---------------------------------------------------------------------------
(* Program constants *)

CD_SHIELD_SX1262_SUBGHZ_FREQ_MIN == 150000000
CD_SHIELD_SX1262_SUBGHZ_FREQ_MAX == 960000000
CD_SHIELD_SX1262_MIN_PWR == -9
CD_SHIELD_SX1262_MAX_PWR == 22
modemTxOffset == 0
FallbackPwr == 6
OcpValue == 56

---------------------------------------------------------------------------
(* Machine integers *)

\* uint32_t value of n, for 0 <= n < 2^31
U32Of(n) == <<n \div 65536, n % 65536>>

\* conversion of an int n to uint32_t (n mod 2^32), for -65536 <= n < 2^31
IntToU32(n) == IF n >= 0 THEN U32Of(n) ELSE <<65535, 65536 + n>>

\* a <= b on uint32_t
U32Leq(a, b) == a[1] < b[1] \/ (a[1] = b[1] /\ a[2] <= b[2])

UINT32_MAX == <<65535, 65535>>

\* conversion of an int n to int8_t (two's complement wrap)
ToInt8(n) == ((n + 128) % 256) - 128

NullPtr == << >>

---------------------------------------------------------------------------
(* The PA configuration table *)

Entry_FieldsMixed(power, hp_max, pa_duty_cycle, device_sel, pa_lut) ==
    [power    |-> hp_max,
     paConfig |-> [hp_max |-> power, pa_duty_cycle |-> pa_duty_cycle,
                   device_sel |-> device_sel, pa_lut |-> pa_lut]]

\* CDShieldSx1262PaPwrCfg_t
Entry(power, hp_max, pa_duty_cycle, device_sel, pa_lut) ==
    [power    |-> power,
     paConfig |-> [hp_max |-> hp_max, pa_duty_cycle |-> pa_duty_cycle,
                   device_sel |-> device_sel, pa_lut |-> pa_lut]]

\* initialiser of paCfgTable; element i of the C array is PaCfgTableInit[i + 1]
PaCfgTableInit ==
    << Entry( 2, 1, 1, 0, 1),   \*  -9 dBm
       Entry( 5, 1, 0, 0, 1),   \*  -8 dBm
       Entry( 5, 1, 1, 0, 1),   \*  -7 dBm
       Entry( 8, 1, 0, 0, 1),   \*  -6 dBm
       Entry( 3, 2, 0, 0, 1),   \*  -5 dBm
       Entry( 9, 1, 0, 0, 1),   \*  -4 dBm
       Entry(10, 1, 0, 0, 1),   \*  -3 dBm
       Entry(11, 1, 0, 0, 1),   \*  -2 dBm
       Entry(13, 1, 1, 0, 1),   \*  -1 dBm
       Entry(19, 1, 1, 0, 1),   \*   0 dBm
       Entry(16, 1, 1, 0, 1),   \*   1 dBm
       Entry(20, 1, 0, 0, 1),   \*   2 dBm
       Entry(18, 1, 3, 0, 1),   \*   3 dBm
       Entry(21, 1, 0, 0, 1),   \*   4 dBm
       Entry(16, 2, 0, 0, 1),   \*   5 dBm
       Entry(22, 1, 0, 0, 1),   \*   6 dBm
       Entry(22, 1, 1, 0, 1),   \*   7 dBm
       Entry(22, 1, 2, 0, 1),   \*   8 dBm
       Entry(22, 1, 3, 0, 1),   \*   9 dBm
       Entry(22, 1, 4, 0, 1),   \*  10 dBm
       Entry(22, 2, 0, 0, 1),   \*  11 dBm
       Entry(22, 2, 1, 0, 1),   \*  12 dBm
       Entry(22, 2, 2, 0, 1),   \*  13 dBm
       Entry(22, 2, 3, 0, 1),   \*  14 dBm
       Entry(22, 3, 1, 0, 1),   \*  15 dBm
       Entry(22, 3, 2, 0, 1),   \*  16 dBm
       Entry(22, 5, 0, 0, 1),   \*  17 dBm
       Entry(22, 5, 1, 0, 1),   \*  18 dBm
       Entry(22, 5, 2, 0, 1),   \*  19 dBm
       Entry(22, 6, 3, 0, 1),   \*  20 dBm
       Entry(22, 6, 4, 0, 1),   \*  21 dBm
       Entry(22, 7, 4, 0, 1) >> \*  22 dBm

\* what a read outside the array may yield (undefined behaviour)
StrayEntries ==
    { Entry(-128, 255, 255, 255, 255), Entry(127, 0, 0, 0, 0), Entry(0, 8, 5, 1, 0) }

\* the objects *ptr may denote, for a pointer ptr into the table tbl
Deref(tbl, ptr) ==
    IF ptr # NullPtr /\ ptr[1] = 0 /\ ptr[2] < Len(tbl)
    THEN {tbl[ptr[2] + 1]}
    ELSE StrayEntries

---------------------------------------------------------------------------
(* Inputs *)

Contexts == {"NULL", "radioContext"}

Freqs ==
    { U32Of(0),
      U32Of(CD_SHIELD_SX1262_SUBGHZ_FREQ_MIN - 1),
      U32Of(CD_SHIELD_SX1262_SUBGHZ_FREQ_MIN),
      U32Of(434000000),
      U32Of(CD_SHIELD_SX1262_SUBGHZ_FREQ_MAX),
      U32Of(CD_SHIELD_SX1262_SUBGHZ_FREQ_MAX + 1),
      U32Of(1000000000),
      UINT32_MAX }

Powers ==
    (CD_SHIELD_SX1262_MIN_PWR .. CD_SHIELD_SX1262_MAX_PWR)
        \cup {-128, -10, 23, 100, 127}

NoCall == [op |-> "none", context |-> "NULL", freq |-> U32Of(0), pwr |-> 0]

UnsetOutputParams ==
    [chip_output_pwr_in_dbm_expected   |-> -1,
     chip_output_pwr_in_dbm_configured |-> -1,
     pa_cfg |-> [device_sel |-> 255, hp_max |-> 255, pa_duty_cycle |-> 255, pa_lut |-> 255],
     pa_ramp_time |-> "unset"]

NoneSeen == [call |-> NoCall, result |-> << >>, between |-> FALSE]

ZeroRalf ==
    [ral |-> [context |-> "NULL", radio_type |-> "zero", driver |-> "zero"],
     ralf_drv |-> "zero"]

---------------------------------------------------------------------------
(* CDShieldSx1262PaPwrCfg *)

FreqInBand(rfFreqInHz) ==
    /\ U32Leq(U32Of(CD_SHIELD_SX1262_SUBGHZ_FREQ_MIN), rfFreqInHz)
    /\ U32Leq(rfFreqInHz, U32Of(CD_SHIELD_SX1262_SUBGHZ_FREQ_MAX))

PwrInRange(pwr) ==
    CD_SHIELD_SX1262_MIN_PWR <= pwr /\ pwr <= CD_SHIELD_SX1262_MAX_PWR

\* uint32_t idx = expectedOutputPwrInDbm - CD_SHIELD_SX1262_MIN_PWR
IdxOf(expectedOutputPwrInDbm) ==
    IntToU32(expectedOutputPwrInDbm - CD_SHIELD_SX1262_MIN_PWR)

FallbackPtr == U32Of(FallbackPwr - CD_SHIELD_SX1262_MIN_PWR)

\* variants of the lookup with one slip each
CDShieldSx1262PaPwrCfg_ExclusiveFreq(rfFreqInHz, expectedOutputPwrInDbm) ==
    IF /\ FreqInBand(rfFreqInHz)
       /\ rfFreqInHz # U32Of(CD_SHIELD_SX1262_SUBGHZ_FREQ_MIN)
       /\ rfFreqInHz # U32Of(CD_SHIELD_SX1262_SUBGHZ_FREQ_MAX)
       /\ PwrInRange(expectedOutputPwrInDbm)
    THEN IdxOf(expectedOutputPwrInDbm)
    ELSE FallbackPtr

CDShieldSx1262PaPwrCfg_Clamp(rfFreqInHz, expectedOutputPwrInDbm) ==
    IF FreqInBand(rfFreqInHz)
    THEN IF expectedOutputPwrInDbm < CD_SHIELD_SX1262_MIN_PWR
         THEN IdxOf(CD_SHIELD_SX1262_MIN_PWR)
         ELSE IF expectedOutputPwrInDbm > CD_SHIELD_SX1262_MAX_PWR
              THEN IdxOf(CD_SHIELD_SX1262_MAX_PWR)
              ELSE IdxOf(expectedOutputPwrInDbm)
    ELSE FallbackPtr

CDShieldSx1262PaPwrCfg_FallbackNoOffset(rfFreqInHz, expectedOutputPwrInDbm) ==
    IF FreqInBand(rfFreqInHz) /\ PwrInRange(expectedOutputPwrInDbm)
    THEN IdxOf(expectedOutputPwrInDbm)
    ELSE U32Of(FallbackPwr)

CDShieldSx1262PaPwrCfg_ExclusiveMaxPwr(rfFreqInHz, expectedOutputPwrInDbm) ==
    IF /\ FreqInBand(rfFreqInHz)
       /\ CD_SHIELD_SX1262_MIN_PWR <= expectedOutputPwrInDbm
       /\ expectedOutputPwrInDbm < CD_SHIELD_SX1262_MAX_PWR
    THEN IdxOf(expectedOutputPwrInDbm)
    ELSE FallbackPtr

CDShieldSx1262PaPwrCfg_NoMinCheck(rfFreqInHz, expectedOutputPwrInDbm) ==
    IF /\ FreqInBand(rfFreqInHz)
       /\ expectedOutputPwrInDbm <= CD_SHIELD_SX1262_MAX_PWR
    THEN IdxOf(expectedOutputPwrInDbm)
    ELSE FallbackPtr

CDShieldSx1262PaPwrCfg_Sticky(rfFreqInHz, expectedOutputPwrInDbm) ==
    IF FreqInBand(rfFreqInHz) /\ PwrInRange(expectedOutputPwrInDbm)
    THEN IdxOf(expectedOutputPwrInDbm)
    ELSE IF paPwrCfg # NullPtr THEN paPwrCfg ELSE FallbackPtr

\* if in band and in range, &paCfgTable[idx]; else &paCfgTable[6 - MIN_PWR]
CDShieldSx1262PaPwrCfg(rfFreqInHz, expectedOutputPwrInDbm) ==
    IF FreqInBand(rfFreqInHz)
    THEN IF PwrInRange(expectedOutputPwrInDbm)
         THEN IdxOf(expectedOutputPwrInDbm)
         ELSE FallbackPtr
    ELSE FallbackPtr

\* a direct call of the lookup
ResolveCall(f, p) ==
    /\ lastCall' = [op |-> "CDShieldSx1262PaPwrCfg", context |-> "NULL",
                    freq |-> f, pwr |-> p]
    /\ paPwrCfg' = CDShieldSx1262PaPwrCfg(f, p)
    /\ UNCHANGED <<paCfgTable, outputParams>>

Resolve ==
    /\ \E f \in Freqs, p \in Powers : ResolveCall(f, p)
    /\ UNCHANGED <<seen, getterVars, ralfVars>>

---------------------------------------------------------------------------
(* ral_sx126x_bsp_get_tx_cfg *)

SX126X_RAMP_40_US == "SX126X_RAMP_40_US"

GetTxCfgCall_ConfiguredIsExpected(c, f, p) ==
    LET expected == ToInt8(p + modemTxOffset)
        ptr      == CDShieldSx1262PaPwrCfg(f, expected)
    IN  \E e \in Deref(paCfgTable, ptr) :
          /\ paPwrCfg' = ptr
          /\ outputParams' =
                [chip_output_pwr_in_dbm_expected   |-> expected,
                 chip_output_pwr_in_dbm_configured |-> expected,
                 pa_cfg |-> [device_sel    |-> e.paConfig.device_sel,
                             hp_max        |-> e.paConfig.hp_max,
                             pa_duty_cycle |-> e.paConfig.pa_duty_cycle,
                             pa_lut        |-> e.paConfig.pa_lut],
                 pa_ramp_time |-> SX126X_RAMP_40_US]
          /\ lastCall' = [op |-> "ral_sx126x_bsp_get_tx_cfg", context |-> c,
                          freq |-> f, pwr |-> p]
          /\ UNCHANGED paCfgTable

\* the body of ral_sx126x_bsp_get_tx_cfg for inputParams = {f, p}
GetTxCfgCall(c, f, p) ==
    LET expected == ToInt8(p + modemTxOffset)
        ptr      == CDShieldSx1262PaPwrCfg(f, expected)
    IN  \E e \in Deref(paCfgTable, ptr) :
          /\ paPwrCfg' = ptr
          /\ outputParams' =
                [chip_output_pwr_in_dbm_expected   |-> expected,
                 chip_output_pwr_in_dbm_configured |-> e.power,
                 pa_cfg |-> [device_sel    |-> e.paConfig.device_sel,
                             hp_max        |-> e.paConfig.hp_max,
                             pa_duty_cycle |-> e.paConfig.pa_duty_cycle,
                             pa_lut        |-> e.paConfig.pa_lut],
                 pa_ramp_time |-> SX126X_RAMP_40_US]
          /\ lastCall' = [op |-> "ral_sx126x_bsp_get_tx_cfg", context |-> c,
                          freq |-> f, pwr |-> p]
          /\ UNCHANGED paCfgTable

ral_sx126x_bsp_get_tx_cfg ==
    /\ \E c \in Contexts, f \in Freqs, p \in Powers : GetTxCfgCall(c, f, p)
    /\ UNCHANGED <<seen, getterVars, ralfVars>>

---------------------------------------------------------------------------
(* Calls observed for repeatability: one earlier call is kept with its result *)

PurityFreqs ==
    { U32Of(CD_SHIELD_SX1262_SUBGHZ_FREQ_MIN - 1), U32Of(434000000), UINT32_MAX }

PurityPowers == {-128, CD_SHIELD_SX1262_MIN_PWR, 5, FallbackPwr, CD_SHIELD_SX1262_MAX_PWR, 23}

\* what the caller gets back from the call named op, read in the state after it
ResultOf(op, tbl, ptr, out) ==
    IF op = "ral_sx126x_bsp_get_tx_cfg" THEN <<ptr, out>> ELSE <<ptr, Deref(tbl, ptr)>>

\* between: a call with other arguments has run since the kept call
Keep(keep) ==
    seen' = IF keep
            THEN [call    |-> lastCall',
                  result  |-> ResultOf(lastCall'.op, paCfgTable', paPwrCfg', outputParams'),
                  between |-> FALSE]
            ELSE [seen EXCEPT !.between =
                      @ \/ (seen.call.op # "none" /\ lastCall' # seen.call)]

ResolveObserved ==
    /\ \E f \in PurityFreqs, p \in PurityPowers, keep \in BOOLEAN :
          ResolveCall(f, p) /\ Keep(keep)
    /\ UNCHANGED <<getterVars, ralfVars>>

GetTxCfgObserved ==
    /\ \E f \in PurityFreqs, p \in PurityPowers, keep \in BOOLEAN :
          GetTxCfgCall("radioContext", f, p) /\ Keep(keep)
    /\ UNCHANGED <<getterVars, ralfVars>>

---------------------------------------------------------------------------
(* The constant getters *)

SX126X_REG_MODE_DCDC == "SX126X_REG_MODE_DCDC"

GetterCall(op, c) == [op |-> op, context |-> c, freq |-> U32Of(0), pwr |-> 0]

ral_sx126x_bsp_get_reg_mode ==
    /\ \E c \in Contexts : lastCall' = GetterCall("ral_sx126x_bsp_get_reg_mode", c)
    /\ regMode' = SX126X_REG_MODE_DCDC
    /\ UNCHANGED <<dio2IsSetAsRfSwitch, DIO2_TX_ENABLE, ocpInStepOf2p5Mma,
                   tcxoIsRadioControlled, supplyVoltage, startupTimeInTick>>
    /\ UNCHANGED <<paVars, seen, ralfVars>>

ral_sx126x_bsp_get_rf_switch_cfg ==
    /\ \E c \in Contexts : lastCall' = GetterCall("ral_sx126x_bsp_get_rf_switch_cfg", c)
    /\ dio2IsSetAsRfSwitch' = DIO2_TX_ENABLE
    /\ UNCHANGED <<regMode, DIO2_TX_ENABLE, ocpInStepOf2p5Mma,
                   tcxoIsRadioControlled, supplyVoltage, startupTimeInTick>>
    /\ UNCHANGED <<paVars, seen, ralfVars>>

ral_sx126x_bsp_get_xosc_cfg_FillsAll ==
    /\ \E c \in Contexts : lastCall' = GetterCall("ral_sx126x_bsp_get_xosc_cfg", c)
    /\ tcxoIsRadioControlled' = FALSE
    /\ supplyVoltage' = "SX126X_TCXO_CTRL_1_6V"
    /\ startupTimeInTick' = U32Of(0)
    /\ UNCHANGED <<regMode, dio2IsSetAsRfSwitch, DIO2_TX_ENABLE, ocpInStepOf2p5Mma>>
    /\ UNCHANGED <<paVars, seen, ralfVars>>

ral_sx126x_bsp_get_xosc_cfg ==
    /\ \E c \in Contexts : lastCall' = GetterCall("ral_sx126x_bsp_get_xosc_cfg", c)
    /\ tcxoIsRadioControlled' = FALSE
    /\ UNCHANGED <<regMode, dio2IsSetAsRfSwitch, DIO2_TX_ENABLE, ocpInStepOf2p5Mma,
                   supplyVoltage, startupTimeInTick>>
    /\ UNCHANGED <<paVars, seen, ralfVars>>

ral_sx126x_bsp_get_ocp_value ==
    /\ \E c \in Contexts : lastCall' = GetterCall("ral_sx126x_bsp_get_ocp_value", c)
    /\ ocpInStepOf2p5Mma' = OcpValue
    /\ UNCHANGED <<regMode, dio2IsSetAsRfSwitch, DIO2_TX_ENABLE,
                   tcxoIsRadioControlled, supplyVoltage, startupTimeInTick>>
    /\ UNCHANGED <<paVars, seen, ralfVars>>

---------------------------------------------------------------------------
(* The provider of the radio instance *)

MaxHandles == 3

\* the compound literal RALF_SX126X_INSTANTIATE(ctx)
RALF_SX126X_INSTANTIATE(ctx) ==
    [ral |-> [context |-> ctx, radio_type |-> "RAL_RADIO_SX126X",
              driver |-> "RAL_SX126X_DRV_INSTANTIATE"],
     ralf_drv |-> "RALF_SX126X_DRV_INSTANTIATE"]

\* the values a ralf_t may be given through a pointer to it
RalfValues ==
    { [ral |-> [context |-> c, radio_type |-> t, driver |-> d], ralf_drv |-> r] :
        c \in {"NULL", "radioContext", "otherContext"},
        t \in {"zero", "RAL_RADIO_SX126X"},
        d \in {"zero", "RAL_SX126X_DRV_INSTANTIATE"},
        r \in {"zero", "RALF_SX126X_DRV_INSTANTIATE"} }

smtc_board_initialise_and_get_ralf_InitOnce ==
    /\ Len(handles) < MaxHandles
    /\ ralfBefore' = localRalf
    /\ localRalf' = IF localRalf = ZeroRalf
                    THEN RALF_SX126X_INSTANTIATE("radioContext")
                    ELSE localRalf
    /\ handles' = Append(handles, "localRalf")
    /\ lastCall' = GetterCall("smtc_board_initialise_and_get_ralf", "NULL")
    /\ UNCHANGED <<paVars, seen, getterVars>>

\* localRalf = RALF_SX126X_INSTANTIATE(&radioContext); return &localRalf
smtc_board_initialise_and_get_ralf ==
    /\ Len(handles) < MaxHandles
    /\ ralfBefore' = localRalf
    /\ localRalf' = RALF_SX126X_INSTANTIATE("radioContext")
    /\ handles' = Append(handles, "localRalf")
    /\ lastCall' = GetterCall("smtc_board_initialise_and_get_ralf", "NULL")
    /\ UNCHANGED <<paVars, seen, getterVars>>

\* a holder of a returned ralf_t * stores through it
CallerWritesRalf ==
    /\ \E i \in 1 .. Len(handles), v \in RalfValues :
          /\ handles[i] = "localRalf"
          /\ v # localRalf
          /\ localRalf' = v
    /\ lastCall' = GetterCall("store through ralf_t *", "NULL")
    /\ UNCHANGED <<handles, ralfBefore>>
    /\ UNCHANGED <<paVars, seen, getterVars>>

---------------------------------------------------------------------------
(* Initial states *)

InitPa ==
    /\ paCfgTable = PaCfgTableInit
    /\ paPwrCfg = NullPtr
    /\ outputParams = UnsetOutputParams

InitGettersFixed ==
    /\ regMode = "unset"
    /\ dio2IsSetAsRfSwitch = FALSE
    /\ DIO2_TX_ENABLE = TRUE
    /\ ocpInStepOf2p5Mma = 0
    /\ tcxoIsRadioControlled = TRUE
    /\ supplyVoltage = "unset"
    /\ startupTimeInTick = 0

InitRalf ==
    /\ localRalf = ZeroRalf
    /\ handles = << >>
    /\ ralfBefore = ZeroRalf

Init ==
    /\ InitPa
    /\ InitGettersFixed
    /\ InitRalf
    /\ lastCall = NoCall
    /\ seen = NoneSeen

\* the caller's output structure holds anything before the first call
PriorOutputParams ==
    { UnsetOutputParams,
      [chip_output_pwr_in_dbm_expected   |-> 127,
       chip_output_pwr_in_dbm_configured |-> -128,
       pa_cfg |-> [device_sel |-> 1, hp_max |-> 0, pa_duty_cycle |-> 7, pa_lut |-> 0],
       pa_ramp_time |-> "SX126X_RAMP_3400_US"] }

InitTxCfg ==
    /\ paCfgTable = PaCfgTableInit
    /\ paPwrCfg = NullPtr
    /\ outputParams \in PriorOutputParams
    /\ InitGettersFixed
    /\ InitRalf
    /\ lastCall = NoCall
    /\ seen = NoneSeen

NextResolver == Resolve

SpecResolver == Init /\ [][NextResolver]_vars

NextTxCfg == ral_sx126x_bsp_get_tx_cfg

SpecTxCfg == InitTxCfg /\ [][NextTxCfg]_vars

NextPurity == ResolveObserved \/ GetTxCfgObserved

SpecPurity == Init /\ [][NextPurity]_vars

\* the callers' out-parameters hold anything before the first call
InitGetters ==
    /\ regMode \in {"unset", "SX126X_REG_MODE_LDO", SX126X_REG_MODE_DCDC}
    /\ dio2IsSetAsRfSwitch \in BOOLEAN
    /\ DIO2_TX_ENABLE \in BOOLEAN
    /\ ocpInStepOf2p5Mma \in {0, OcpValue, 255}
    /\ tcxoIsRadioControlled \in BOOLEAN
    /\ supplyVoltage \in {"unset", "SX126X_TCXO_CTRL_1_8V", "SX126X_TCXO_CTRL_3_3V"}
    /\ startupTimeInTick \in {U32Of(0), U32Of(300), UINT32_MAX}
    /\ InitPa
    /\ InitRalf
    /\ lastCall = NoCall
    /\ seen = NoneSeen

NextGetters ==
    \/ ral_sx126x_bsp_get_reg_mode
    \/ ral_sx126x_bsp_get_rf_switch_cfg
    \/ ral_sx126x_bsp_get_xosc_cfg
    \/ ral_sx126x_bsp_get_ocp_value

SpecGetters == InitGetters /\ [][NextGetters]_vars

NextRalf == smtc_board_initialise_and_get_ralf \/ CallerWritesRalf

SpecRalf == Init /\ [][NextRalf]_vars

---------------------------------------------------------------------------
(* Properties *)

\* the call that ran last
LastIsResolve == lastCall.op = "CDShieldSx1262PaPwrCfg"
LastIsGetTxCfg == lastCall.op = "ral_sx126x_bsp_get_tx_cfg"

\* the frequency band and the power range as inclusive intervals
InBandHz(f) ==
    /\ U32Leq(U32Of(150000000), f)
    /\ U32Leq(f, U32Of(960000000))

InRangeDbm(p) == p \in -9 .. 22

\* an entry written out field by field
Stated(power, hp_max, pa_duty_cycle, device_sel, pa_lut) ==
    [power |-> power,
     paConfig |-> [hp_max |-> hp_max, pa_duty_cycle |-> pa_duty_cycle,
                   device_sel |-> device_sel, pa_lut |-> pa_lut]]

\* the returned pointer is &paCfgTable[i]
PointsAt(i) == paPwrCfg = <<0, i>>

\* C1: a lookup with the frequency in [150000000, 960000000] and the power p in
\* [-9, 22], bounds included, returns the table entry at index p - (-9),
\* whichever frequency of the band was passed.
ExactLookup ==
    (LastIsResolve /\ InBandHz(lastCall.freq) /\ InRangeDbm(lastCall.pwr))
        => /\ PointsAt(lastCall.pwr + 9)
           /\ Deref(paCfgTable, paPwrCfg) = {paCfgTable[lastCall.pwr + 9 + 1]}

ExactLookupWitness ==
    /\ LastIsResolve
    /\ lastCall.freq = U32Of(960000000)
    /\ lastCall.pwr = 22
    /\ PointsAt(31)

\* C2: a lookup with the frequency outside the band or the power outside the
\* range, or both, returns the entry at index 6 - (-9) = 15, whatever the reason,
\* and always a pointer to an entry (no null, no error value).
FallbackLookup ==
    (LastIsResolve /\ ~(InBandHz(lastCall.freq) /\ InRangeDbm(lastCall.pwr)))
        => /\ PointsAt(15)
           /\ paPwrCfg # NullPtr
           /\ Deref(paCfgTable, paPwrCfg) = {paCfgTable[16]}

FallbackLookupWitness ==
    /\ LastIsResolve
    /\ lastCall.freq = U32Of(960000001)
    /\ lastCall.pwr = -128
    /\ PointsAt(15)

\* C3: get_tx_cfg reports expected = requested power + offset (offset 0),
\* configured = the power of the entry the lookup returns for (frequency,
\* requested + offset), pa_cfg equal to that entry's PA configuration field by
\* field, and the 40 us ramp; 434000000 Hz with 5 dBm gives expected 5,
\* configured 16.
TxCfgComposition ==
    LastIsGetTxCfg =>
        LET requested == lastCall.pwr + modemTxOffset
            ptr       == CDShieldSx1262PaPwrCfg(lastCall.freq, requested)
        IN  /\ modemTxOffset = 0
            /\ outputParams.chip_output_pwr_in_dbm_expected = requested
            /\ \A e \in Deref(paCfgTable, ptr) :
                  /\ outputParams.chip_output_pwr_in_dbm_configured = e.power
                  /\ outputParams.pa_cfg.device_sel = e.paConfig.device_sel
                  /\ outputParams.pa_cfg.hp_max = e.paConfig.hp_max
                  /\ outputParams.pa_cfg.pa_duty_cycle = e.paConfig.pa_duty_cycle
                  /\ outputParams.pa_cfg.pa_lut = e.paConfig.pa_lut
            /\ outputParams.pa_ramp_time = "SX126X_RAMP_40_US"
            /\ (lastCall.freq = U32Of(434000000) /\ lastCall.pwr = 5)
                  => /\ outputParams.chip_output_pwr_in_dbm_expected = 5
                     /\ outputParams.chip_output_pwr_in_dbm_configured = 16

TxCfgCompositionWitness ==
    /\ LastIsGetTxCfg
    /\ lastCall.freq = U32Of(434000000)
    /\ lastCall.pwr = 5
    /\ outputParams.chip_output_pwr_in_dbm_expected = 5
    /\ outputParams.chip_output_pwr_in_dbm_configured = 16

\* C4 as stated: the entry returned on fallback is the one at index 15 and
\* equals {power 10, hp_max 1, pa_duty_cycle 0, device_sel 0, pa_lut 1}.
FallbackValueAsStated ==
    (LastIsResolve /\ ~(InBandHz(lastCall.freq) /\ InRangeDbm(lastCall.pwr)))
        => /\ PointsAt(15)
           /\ Deref(paCfgTable, paPwrCfg) = {Stated(10, 1, 0, 0, 1)}

\* C4: the entry returned on fallback, e.g. for (1000000000, 0) and for
\* (434000000, 100), is the one at index 15 and equals
\* {power 22, hp_max 1, pa_duty_cycle 0, device_sel 0, pa_lut 1}.
FallbackValue ==
    (LastIsResolve /\ ~(InBandHz(lastCall.freq) /\ InRangeDbm(lastCall.pwr)))
        => /\ PointsAt(15)
           /\ Deref(paCfgTable, paPwrCfg) = {Stated(22, 1, 0, 0, 1)}

FallbackValueWitness ==
    /\ LastIsResolve
    /\ \/ lastCall.freq = U32Of(1000000000) /\ lastCall.pwr = 0
       \/ lastCall.freq = U32Of(434000000) /\ lastCall.pwr = 100
    /\ Deref(paCfgTable, paPwrCfg) = {Stated(22, 1, 0, 0, 1)}

\* C5: at 434000000 Hz the lookup returns {2, 1, 1, 0, 1} for -9 dBm,
\* {19, 1, 1, 0, 1} for 0 dBm and {22, 7, 4, 0, 1} for 22 dBm
\* (power, hp_max, pa_duty_cycle, device_sel, pa_lut).
InBandValues ==
    (LastIsResolve /\ lastCall.freq = U32Of(434000000))
        => /\ lastCall.pwr = -9 => Deref(paCfgTable, paPwrCfg) = {Stated(2, 1, 1, 0, 1)}
           /\ lastCall.pwr = 0  => Deref(paCfgTable, paPwrCfg) = {Stated(19, 1, 1, 0, 1)}
           /\ lastCall.pwr = 22 => Deref(paCfgTable, paPwrCfg) = {Stated(22, 7, 4, 0, 1)}

InBandValuesWitness ==
    /\ LastIsResolve
    /\ lastCall.freq = U32Of(434000000)
    /\ lastCall.pwr = 22
    /\ Deref(paCfgTable, paPwrCfg) = {Stated(22, 7, 4, 0, 1)}

\* C6: whatever the context, the prior contents of the out-parameters and the
\* earlier calls, get_reg_mode writes DCDC, get_ocp_value writes 0x38 = 56, and
\* get_xosc_cfg writes radio_controlled = false and leaves the supply voltage
\* and the startup time as they were before the call.
FixedGetters ==
    [][ /\ lastCall'.op = "ral_sx126x_bsp_get_reg_mode"
            => regMode' = "SX126X_REG_MODE_DCDC"
        /\ lastCall'.op = "ral_sx126x_bsp_get_ocp_value"
            => ocpInStepOf2p5Mma' = 56
        /\ lastCall'.op = "ral_sx126x_bsp_get_xosc_cfg"
            => /\ tcxoIsRadioControlled' = FALSE
               /\ supplyVoltage' = supplyVoltage
               /\ startupTimeInTick' = startupTimeInTick ]_vars

FixedGettersWitness ==
    /\ lastCall.op = "ral_sx126x_bsp_get_xosc_cfg"
    /\ lastCall.context = "radioContext"
    /\ tcxoIsRadioControlled = FALSE
    /\ supplyVoltage = "SX126X_TCXO_CTRL_3_3V"
    /\ startupTimeInTick = UINT32_MAX
    /\ regMode = "SX126X_REG_MODE_DCDC"
    /\ ocpInStepOf2p5Mma = 56

\* C7: after any sequence of lookups and get_tx_cfg calls the table is as
\* initialised, and a call with the same frequency and power as an earlier call
\* returns what that call returned, whatever ran in between.
Repeatable ==
    /\ paCfgTable = PaCfgTableInit
    /\ (lastCall.op # "none" /\ seen.call = lastCall)
          => seen.result = ResultOf(lastCall.op, paCfgTable, paPwrCfg, outputParams)

\* an out-of-band get_tx_cfg call was kept, calls with other arguments ran,
\* and the same call has been made again
RepeatableWitness ==
    /\ seen.call = lastCall
    /\ seen.between
    /\ LastIsGetTxCfg
    /\ lastCall.freq = UINT32_MAX
    /\ lastCall.pwr = 23
    /\ seen.result = <<paPwrCfg, outputParams>>
    /\ outputParams.chip_output_pwr_in_dbm_configured = 22

\* the entries whose stored power is at most (at least) the power indexing them
AtMostRequested ==
    { i \in 1 .. Len(paCfgTable) : paCfgTable[i].power <= -9 + (i - 1) }

AtLeastRequested ==
    { i \in 1 .. Len(paCfgTable) : paCfgTable[i].power >= -9 + (i - 1) }

\* C8 as stated: the table has 22 - (-9) + 1 = 32 entries and for more than
\* half of them the stored power is at most the requested power of the index.
MostlyAtMostRequested ==
    /\ Len(paCfgTable) = 22 - (-9) + 1
    /\ 2 * Cardinality(AtMostRequested) > Len(paCfgTable)

\* C8: the table has 32 entries, entry i standing for requested power -9 + i,
\* and for every entry the stored power is at least the requested power of its
\* index; only the last entry (22 dBm) has a stored power at most the requested.
AlwaysAtLeastRequested ==
    /\ Len(paCfgTable) = 22 - (-9) + 1
    /\ Len(paCfgTable) = 32
    /\ AtLeastRequested = 1 .. 32
    /\ AtMostRequested = {32}

\* a lookup has returned an entry whose stored power exceeds the request
AlwaysAtLeastRequestedWitness ==
    /\ LastIsResolve
    /\ lastCall.freq = U32Of(150000000)
    /\ lastCall.pwr = 5
    /\ \A e \in Deref(paCfgTable, paPwrCfg) : e.power = 16

\* C9: every call of the provider returns a pointer to the one static instance
\* and leaves that instance equal to the freshly instantiated value bound to
\* radioContext, so what was stored through an earlier pointer is gone and all
\* pointers returned so far see the re-initialised contents.
RadioHandleSingleton ==
    /\ \A i \in 1 .. Len(handles) : handles[i] = "localRalf"
    /\ lastCall.op = "smtc_board_initialise_and_get_ralf"
          => /\ Len(handles) >= 1
             /\ localRalf = [ral |-> [context |-> "radioContext",
                                      radio_type |-> "RAL_RADIO_SX126X",
                                      driver |-> "RAL_SX126X_DRV_INSTANTIATE"],
                             ralf_drv |-> "RALF_SX126X_DRV_INSTANTIATE"]

\* a second call has overwritten contents stored through the first pointer
RadioHandleSingletonWitness ==
    /\ lastCall.op = "smtc_board_initialise_and_get_ralf"
    /\ Len(handles) = 2
    /\ ralfBefore.ral.context = "otherContext"
    /\ localRalf.ral.context = "radioContext"

\* C10: whatever the frequency and the requested power, the configuration
\* get_tx_cfg writes has configured power in [-9, 22], device_sel 0, pa_lut 1,
\* hp_max <= 7 and pa_duty_cycle <= 4, and was read from one of the 32 entries:
\* the pointer used is &paCfgTable[i] with 0 <= i <= 31.
OutputLegality ==
    LastIsGetTxCfg =>
        /\ outputParams.chip_output_pwr_in_dbm_configured \in -9 .. 22
        /\ outputParams.pa_cfg.device_sel = 0
        /\ outputParams.pa_cfg.pa_lut = 1
        /\ outputParams.pa_cfg.hp_max \in 0 .. 7
        /\ outputParams.pa_cfg.pa_duty_cycle \in 0 .. 4
        /\ paPwrCfg # NullPtr
        /\ paPwrCfg[1] = 0
        /\ paPwrCfg[2] \in 0 .. 31

\* an in-band request whose index wraps around as an unsigned value
OutputLegalityWitness ==
    /\ LastIsGetTxCfg
    /\ lastCall.freq = U32Of(434000000)
    /\ lastCall.pwr = -128
    /\ IdxOf(lastCall.pwr) = <<65535, 65417>>
    /\ PointsAt(15)
    /\ outputParams.chip_output_pwr_in_dbm_configured = 22

===========================================================================
